---- MODULE Spec2Model ----
(***************************************************************************)
(* Lazy fermionic phases of symmray's FermionicArray                       *)
(* (src/symmray/fermionic_core.py).                                        *)
(*                                                                         *)
(* An array object owns two dictionaries, _blocks (sector -> block) and    *)
(* _phases (sector -> sign).  Python dictionaries are shared by reference, *)
(* so the model keeps them in two heaps (blHeap, phHeap) and an array      *)
(* object holds the references.  A method either mutates a dictionary in   *)
(* place or rebinds the attribute to a new dictionary, as its code does.   *)
(*                                                                         *)
(* The symmetry is Z2 (charges 0 and 1, parity(q) = q mod 2) and every     *)
(* axis carries the chargemap {0: 1, 1: 1}, so a block holds one complex   *)
(* number (re, im) together with the order (ax) of its data axes.          *)
(* Axes are numbered from 0, as in the source.                             *)
(***************************************************************************)
EXTENDS Integers, Sequences, FiniteSets, TLC

VARIABLES obj, phHeap, blHeap, out

vars == <<obj, phHeap, blHeap, out>>

(* ------------------------------ bounds --------------------------------- *)

\* largest rank of the array the call sequences of Spec start from
MaxSeqRank == 2

\* largest rank of the array the single calls of SpecSingle are given
MaxRank == 3

\* largest rank of the two operands SpecContract is given
MaxPairRank == 2

\* largest rank of the array the pure calls of SpecPure are made on
MaxPureRank == 2

(* --------------------------- small helpers ----------------------------- *)

\* the axes argument left at its default
None == << -1 >>

Range(n) == [i \in 1..n |-> i - 1]

Reversed(s) == [i \in 1..Len(s) |-> s[Len(s) + 1 - i]]

Elems(s) == {s[i] : i \in 1..Len(s)}

RECURSIVE SumSeq(_)
SumSeq(s) == IF s = <<>> THEN 0 ELSE Head(s) + SumSeq(Tail(s))

RECURSIVE ProdSeq(_)
ProdSeq(s) == IF s = <<>> THEN 1 ELSE Head(s) * ProdSeq(Tail(s))

Pow2(n) == ProdSeq([i \in 1..n |-> 2])

Perms(n) == {p \in [1..n -> 0..(n - 1)] : \A i, j \in 1..n : p[i] = p[j] => i = j}

\* Python dictionaries as functions
EmptyDict == [k \in {} |-> 0]

Get(d, k, default) == IF k \in DOMAIN d THEN d[k] ELSE default

(* ------------------- symmetry, indices and sectors --------------------- *)

Charges == {0, 1}

parity(q) == q % 2

parities(sector) == [i \in 1..Len(sector) |-> parity(sector[i])]

ChargeMap == [q \in Charges |-> 1]

BlockIndex(flow) == [chargemap |-> ChargeMap, flow |-> flow]

index_conj(ix) == [ix EXCEPT !.flow = ~@]

size_total(ix) == SumSeq([i \in 1..Cardinality(DOMAIN ix.chargemap) |-> 1])

permuted(it, perm) == [i \in 1..Len(perm) |-> it[perm[i] + 1]]

without(it, remove) == SelectSeq(it, LAMBDA q : q \notin Elems(remove))

Inversions(s) ==
    Cardinality({ij \in (1..Len(s)) \X (1..Len(s)) : ij[1] < ij[2] /\ s[ij[1]] > s[ij[2]]})

calc_phase_permutation(pars, perm) ==
    LET p == IF perm = None THEN Reversed(Range(Len(pars))) ELSE perm
        oddperm == SelectSeq(p, LAMBDA i : pars[i + 1] = 1)
    IN  IF Inversions(oddperm) % 2 = 1 THEN -1 ELSE 1

\* the sectors of rank n that the conservation law of Z2 allows
ValidSectors(n, charge_total) ==
    {s \in [1..n -> Charges] : SumSeq(s) % 2 = charge_total}

(* ------------------------------- blocks -------------------------------- *)

block_neg(b) == [b EXCEPT !.re = -@, !.im = -@]

block_conj(b) == [b EXCEPT !.im = -@]

block_transpose(b, axes) == [b EXCEPT !.ax = permuted(@, axes)]

\* the block stored under a sector at construction: a value that names the
\* sector, real in an array of floats and with an imaginary part in one of
\* complex numbers
RealBlock(s) ==
    [re |-> 1 + SumSeq([i \in 1..Len(s) |-> Pow2(i - 1) * s[i]]),
     im |-> 0,
     ax |-> Range(Len(s))]

ComplexBlock(s) == [RealBlock(s) EXCEPT !.im = 1]

RealBlocks(stored) == [s \in stored |-> RealBlock(s)]

ComplexBlocks(stored) == [s \in stored |-> ComplexBlock(s)]

(* ------------------------ objects and the heaps ------------------------ *)

Roots == {"x", "y"}

Temps == {"ta", "tb", "tc"}

Slots == Roots \cup Temps

Refs == 1..(Cardinality(Slots) + 1)

NoArray == [live |-> FALSE]

Live(w) == {s \in Slots : w.obj[s].live}

FreshPh(w) ==
    LET free == Refs \ {w.obj[s].ph : s \in Live(w)}
    IN  CHOOSE r \in free : \A q \in free : r <= q

FreshBl(w) ==
    LET free == Refs \ {w.obj[s].bl : s \in Live(w)}
    IN  CHOOSE r \in free : \A q \in free : r <= q

Log(w, e) == [w EXCEPT !.log = Append(@, e)]

ndim(w, o) == Len(w.obj[o].indices)

phases(w, o) == w.ph[w.obj[o].ph]

blocks(w, o) == w.bl[w.obj[o].bl]

sectors(w, o) == DOMAIN blocks(w, o)

size(w, o) ==
    ProdSeq([i \in 1..ndim(w, o) |-> size_total(w.obj[o].indices[i])])

\* what an array holds, whichever dictionaries hold it
Value(w, o) ==
    [indices |-> w.obj[o].indices,
     charge_total |-> w.obj[o].charge_total,
     blocks |-> blocks(w, o),
     phases |-> phases(w, o)]

(* -------------------------- SymmetricArray ----------------------------- *)

symmetric_copy(w, self, dst) ==
    LET w0 == [w EXCEPT !.obj[dst] = NoArray]
        rb == FreshBl(w0)
    IN  [w0 EXCEPT !.obj[dst] = [w.obj[self] EXCEPT !.bl = rb],
                   !.bl[rb] = blocks(w, self)]

symmetric_transpose(w, self, axes) ==
    LET B  == blocks(w, self)
        rb == FreshBl(w)
        nb == [t \in {permuted(s, axes) : s \in DOMAIN B} |->
                 block_transpose(B[CHOOSE s \in DOMAIN B : permuted(s, axes) = t], axes)]
    IN  [w EXCEPT !.obj[self].indices = permuted(@, axes),
                  !.obj[self].bl = rb,
                  !.bl[rb] = nb]

(* --------------------------- FermionicArray ---------------------------- *)
(* A method M(w, self, ..., inplace, dst) is the method of the source; its  *)
(* first line, new = self if inplace else self.copy(), is Begin and NewOf,  *)
(* and the rest of its body is the operator M_new(w, new, ...).             *)

\* copy that hands the phase map itself to the new array
copy_sharing_phases(w, self, dst) ==
    LET w1 == symmetric_copy(w, self, dst)
    IN  [w1 EXCEPT !.obj[dst].ph = w.obj[self].ph]

copy(w, self, dst) ==
    LET w1 == symmetric_copy(w, self, dst)
        rp == FreshPh(w1)
    IN  [w1 EXCEPT !.obj[dst].ph = rp, !.ph[rp] = phases(w, self)]

NewOf(self, inplace, dst) == IF inplace THEN self ELSE dst

Begin(w, self, inplace, dst) == IF inplace THEN w ELSE copy(w, self, dst)

\* transpose that files each new sign under the sector's old key
transpose_old_keys(w, new, axes0, phase) ==
    LET axes == IF axes0 = None THEN Reversed(Range(ndim(w, new))) ELSE axes0
        P    == phases(w, new)
        odd  == {s \in sectors(w, new) :
                   Get(P, s, 1) * calc_phase_permutation(parities(s), axes) = -1}
        permuted_phases ==
            IF phase
            THEN [t \in odd |-> -1]
            ELSE [t \in {permuted(s, axes) : s \in DOMAIN P} |->
                    P[CHOOSE s \in DOMAIN P : permuted(s, axes) = t]]
        rp   == FreshPh(w)
    IN  Log(symmetric_transpose(
                [w EXCEPT !.ph[rp] = permuted_phases, !.obj[new].ph = rp], new, axes),
            <<"transpose", new>>)

transpose_new(w, new, axes0, phase) ==
    LET axes == IF axes0 = None THEN Reversed(Range(ndim(w, new))) ELSE axes0
        P    == phases(w, new)
        odd  == {s \in sectors(w, new) :
                   Get(P, s, 1) * calc_phase_permutation(parities(s), axes) = -1}
        permuted_phases ==
            IF phase
            THEN [t \in {permuted(s, axes) : s \in odd} |-> -1]
            ELSE [t \in {permuted(s, axes) : s \in DOMAIN P} |->
                    P[CHOOSE s \in DOMAIN P : permuted(s, axes) = t]]
        rp   == FreshPh(w)
    IN  Log(symmetric_transpose(
                [w EXCEPT !.ph[rp] = permuted_phases, !.obj[new].ph = rp], new, axes),
            <<"transpose", new>>)

transpose(w, self, axes0, phase, inplace, dst) ==
    transpose_new(Begin(w, self, inplace, dst), NewOf(self, inplace, dst), axes0, phase)

phase_flip_new(w, new, axs) ==
    LET P   == phases(w, new)
        odd == {s \in sectors(w, new) :
                  SumSeq([i \in 1..Len(axs) |-> parity(s[axs[i] + 1])]) % 2 = 1}
        new_phases ==
            [s \in ((DOMAIN P) \ {t \in odd : -Get(P, t, 1) = 1})
                     \cup {t \in odd : -Get(P, t, 1) # 1} |->
                IF s \in odd THEN -Get(P, s, 1) ELSE P[s]]
        rp  == FreshPh(w)
    IN  IF axs = <<>>
        THEN Log(w, <<"phase_flip", new>>)
        ELSE Log([w EXCEPT !.ph[rp] = new_phases, !.obj[new].ph = rp],
                 <<"phase_flip", new>>)

phase_flip(w, self, axs, inplace, dst) ==
    phase_flip_new(Begin(w, self, inplace, dst), NewOf(self, inplace, dst), axs)

\* phase_resolve that reads the signs without discarding them
phase_resolve_keeping(w, new) ==
    LET P   == phases(w, new)
        B   == blocks(w, new)
        nb  == [s \in (DOMAIN B) \cup (DOMAIN P) |->
                  IF s \in DOMAIN P /\ P[s] = -1 THEN block_neg(B[s]) ELSE B[s]]
    IN  Log([w EXCEPT !.bl[w.obj[new].bl] = nb], <<"phase_resolve", new>>)

phase_resolve_new(w, new) ==
    LET P   == phases(w, new)
        B   == blocks(w, new)
        nb  == [s \in (DOMAIN B) \cup (DOMAIN P) |->
                  IF s \in DOMAIN P /\ P[s] = -1 THEN block_neg(B[s]) ELSE B[s]]
    IN  Log([w EXCEPT !.ph[w.obj[new].ph] = EmptyDict,
                      !.bl[w.obj[new].bl] = nb],
            <<"phase_resolve", new>>)

phase_resolve(w, self, inplace, dst) ==
    phase_resolve_new(Begin(w, self, inplace, dst), NewOf(self, inplace, dst))

\* phase_virtual_transpose that forgets the sign already buffered
phase_virtual_transpose_fresh(w, new, axes) ==
    LET P   == phases(w, new)
        S   == sectors(w, new)
        phase_new(s) == calc_phase_permutation(parities(s), axes)
        np  == [s \in ((DOMAIN P) \ {t \in S : phase_new(t) = 1})
                        \cup {t \in S : phase_new(t) # 1} |->
                  IF s \in S THEN phase_new(s) ELSE P[s]]
    IN  Log([w EXCEPT !.ph[w.obj[new].ph] = np],
            <<"phase_virtual_transpose", new>>)

phase_virtual_transpose_new(w, new, axes) ==
    LET P   == phases(w, new)
        S   == sectors(w, new)
        phase_new(s) == Get(P, s, 1) * calc_phase_permutation(parities(s), axes)
        np  == [s \in ((DOMAIN P) \ {t \in S : phase_new(t) = 1})
                        \cup {t \in S : phase_new(t) # 1} |->
                  IF s \in S THEN phase_new(s) ELSE P[s]]
    IN  Log([w EXCEPT !.ph[w.obj[new].ph] = np],
            <<"phase_virtual_transpose", new>>)

phase_virtual_transpose(w, self, axes, inplace, dst) ==
    phase_virtual_transpose_new(
        Begin(w, self, inplace, dst), NewOf(self, inplace, dst), axes)

conj_new(w, new, phase) ==
    LET indices  == [i \in 1..ndim(w, new) |-> index_conj(w.obj[new].indices[i])]
        axs_conj == SelectSeq(Range(Len(indices)), LAMBDA ax : indices[ax + 1].flow)
        P   == phases(w, new)
        B   == blocks(w, new)
        phase_new(s) ==
            Get(P, s, 1)
            * calc_phase_permutation(parities(s), None)
            * (IF SumSeq([i \in 1..Len(axs_conj) |->
                            parities(s)[axs_conj[i] + 1]]) % 2 = 1 THEN -1 ELSE 1)
        np  == IF phase
               THEN [s \in ((DOMAIN P) \ {t \in DOMAIN B : phase_new(t) = 1})
                             \cup {t \in DOMAIN B : phase_new(t) # 1} |->
                       IF s \in DOMAIN B THEN phase_new(s) ELSE P[s]]
               ELSE P
    IN  Log([w EXCEPT !.obj[new].indices = indices,
                      !.bl[w.obj[new].bl] = [s \in DOMAIN B |-> block_conj(B[s])],
                      !.ph[w.obj[new].ph] = np],
            <<"conj", new>>)

conj(w, self, phase, inplace, dst) ==
    conj_new(Begin(w, self, inplace, dst), NewOf(self, inplace, dst), phase)

\* dagger that carries each buffered sign forward under its old key
dagger_old_keys(w, new, phase) ==
    LET n   == ndim(w, new)
        new_indices == [i \in 1..n |-> index_conj(Reversed(w.obj[new].indices)[i])]
        P   == phases(w, new)
        B   == blocks(w, new)
        new_phases == [t \in {q \in DOMAIN B : Get(P, q, 1) = -1} |-> -1]
        new_blocks == [t \in {Reversed(s) : s \in DOMAIN B} |->
                         block_transpose(block_conj(B[Reversed(t)]), Reversed(Range(n)))]
        rp  == FreshPh(w)
        rb  == FreshBl(w)
        axs_conj == SelectSeq(Range(n), LAMBDA ax : new_indices[ax + 1].flow)
        w3  == Log([w EXCEPT !.ph[w.obj[new].ph] = [s \in (DOMAIN P) \ (DOMAIN B) |-> P[s]],
                             !.obj[new].indices = new_indices,
                             !.obj[new].bl = rb, !.bl[rb] = new_blocks,
                             !.obj[new].ph = rp, !.ph[rp] = new_phases],
                   <<"dagger", new>>)
    IN  IF phase THEN phase_flip_new(w3, new, axs_conj) ELSE w3

dagger_new(w, new, phase) ==
    LET n   == ndim(w, new)
        new_indices == [i \in 1..n |-> index_conj(Reversed(w.obj[new].indices)[i])]
        P   == phases(w, new)
        B   == blocks(w, new)
        new_phases == [t \in {Reversed(s) : s \in {q \in DOMAIN B : Get(P, q, 1) = -1}}
                         |-> -1]
        new_blocks == [t \in {Reversed(s) : s \in DOMAIN B} |->
                         block_transpose(block_conj(B[Reversed(t)]), Reversed(Range(n)))]
        rp  == FreshPh(w)
        rb  == FreshBl(w)
        axs_conj == SelectSeq(Range(n), LAMBDA ax : new_indices[ax + 1].flow)
        \* new._phases.pop(sector, 1) takes the stored sectors out of the old
        \* dictionary before the attribute is bound to the new one
        w3  == Log([w EXCEPT !.ph[w.obj[new].ph] = [s \in (DOMAIN P) \ (DOMAIN B) |-> P[s]],
                             !.obj[new].indices = new_indices,
                             !.obj[new].bl = rb, !.bl[rb] = new_blocks,
                             !.obj[new].ph = rp, !.ph[rp] = new_phases],
                   <<"dagger", new>>)
    IN  IF phase THEN phase_flip_new(w3, new, axs_conj) ELSE w3

dagger(w, self, phase, inplace, dst) ==
    dagger_new(Begin(w, self, inplace, dst), NewOf(self, inplace, dst), phase)

(* ------------------ fuse, to_dense and contraction --------------------- *)

IndexOf(seq, v) == (CHOOSE i \in 1..Len(seq) : seq[i] = v) - 1

RECURSIVE Concat(_)
Concat(ss) == IF ss = <<>> THEN <<>> ELSE Head(ss) \o Concat(Tail(ss))

MinOf(S) == CHOOSE m \in S : \A q \in S : m <= q

\* calc_fuse_info(axes_groups, flows)[2]: the groups, made contiguous, are
\* put where the first fused axis was
fuse_perm(axes_groups, n) ==
    LET grouped  == Elems(Concat(axes_groups))
        position == MinOf(grouped)
        axes_before == SelectSeq(Range(n), LAMBDA ax : ax < position /\ ax \notin grouped)
        axes_after  == SelectSeq(Range(n), LAMBDA ax : ax >= position /\ ax \notin grouped)
    IN  axes_before \o Concat(axes_groups) \o axes_after

\* SymmetricArray.fuse on groups that are already contiguous: a fused axis
\* takes the flow of its first axis and the combined charge of its axes, and
\* a fused block collects the blocks of the sectors it merges
symmetric_fuse(w, self, axes_groups) ==
    LET n       == ndim(w, self)
        grouped == Elems(Concat(axes_groups))
        position == MinOf(grouped)
        units   == [i \in 1..Len(SelectSeq(Range(n), LAMBDA ax : ax < position)) |-> <<i - 1>>]
                   \o axes_groups
                   \o [i \in 1..Len(SelectSeq(Range(n), LAMBDA ax : ax >= position /\ ax \notin grouped)) |->
                         <<SelectSeq(Range(n), LAMBDA ax : ax >= position /\ ax \notin grouped)[i]>>]
        B       == blocks(w, self)
        fused(s) == [u \in 1..Len(units) |-> SumSeq(permuted(s, units[u])) % 2]
    IN  [indices |-> [u \in 1..Len(units) |-> w.obj[self].indices[units[u][1] + 1].flow],
         charge_total |-> w.obj[self].charge_total,
         blocks |-> [t \in {fused(s) : s \in DOMAIN B} |->
                       [s \in {q \in DOMAIN B : fused(q) = t} |-> B[s]]]]

\* SymmetricArray.to_dense: the stored blocks, and zero everywhere else
symmetric_to_dense(w, self) ==
    LET B == blocks(w, self)
    IN  [s \in [1..ndim(w, self) -> Charges] |->
           IF s \in DOMAIN B THEN <<B[s].re, B[s].im>> ELSE <<0, 0>>]

RECURSIVE SumProducts(_, _, _)
SumProducts(A, B, pairs) ==
    IF pairs = {} THEN <<0, 0>>
    ELSE LET p    == CHOOSE q \in pairs : TRUE
             u    == A[p[1]]
             v    == B[p[2]]
             rest == SumProducts(A, B, pairs \ {p})
         IN  <<u.re * v.re - u.im * v.im + rest[1], u.re * v.im + u.im * v.re + rest[2]>>

\* tensordot_symmetric: blocks whose charges agree on the contracted axes are
\* multiplied and summed into the sector of the remaining charges
tensordot_symmetric(w, a, b, axes_a, axes_b) ==
    LET A  == blocks(w, a)
        B  == blocks(w, b)
        left_axes  == without(Range(ndim(w, a)), axes_a)
        right_axes == without(Range(ndim(w, b)), axes_b)
        key(p) == permuted(p[1], left_axes) \o permuted(p[2], right_axes)
        match  == {p \in (DOMAIN A) \X (DOMAIN B) :
                     \A i \in 1..Len(axes_a) : p[1][axes_a[i] + 1] = p[2][axes_b[i] + 1]}
    IN  [indices |-> permuted(w.obj[a].indices, left_axes)
                       \o permuted(w.obj[b].indices, right_axes),
         charge_total |-> (w.obj[a].charge_total + w.obj[b].charge_total) % 2,
         blocks |-> [k \in {key(p) : p \in match} |->
                       SumProducts(A, B, {p \in match : key(p) = k})]]

\* fuse, from the transposed copy on: the flips, the virtual transpose, the
\* resolve and the hand-over to SymmetricArray.fuse
fuse_resolved(w4, w5, axes_groups, flows, axes_flip) ==
    [world |-> w5,
     groups |-> axes_groups,
     flows |-> flows,
     axes_flip |-> axes_flip,
     before |-> phases(w4, "ta"),
     handed |-> <<phases(w5, "ta")>>,
     log |-> Append(w5.log, <<"SymmetricArray.fuse", "ta">>),
     result |-> symmetric_fuse(w5, "ta", axes_groups)]

fuse_phased(w4, axes_groups, flows, axes_flip) ==
    fuse_resolved(w4, phase_resolve(w4, "ta", TRUE, "ta"), axes_groups, flows, axes_flip)

fuse_flipped(w3, axes_groups, flows, axes_flip) ==
    LET dual(g) == axes_groups[g] # <<>> /\ flows[axes_groups[g][1] + 1]
        virtual_perm ==
            [i \in 1..Len(flows) |->
               IF \E g \in 1..Len(axes_groups) : dual(g) /\ (i - 1) \in Elems(axes_groups[g])
               THEN LET g == CHOOSE h \in 1..Len(axes_groups) :
                               dual(h) /\ (i - 1) \in Elems(axes_groups[h])
                    IN  Reversed(axes_groups[g])[IndexOf(axes_groups[g], i - 1) + 1]
               ELSE i - 1]
    IN  fuse_phased(IF \E g \in 1..Len(axes_groups) : dual(g)
                    THEN phase_virtual_transpose(w3, "ta", virtual_perm, TRUE, "ta")
                    ELSE w3,
                    axes_groups, flows, axes_flip)

axes_to_flip(axes_groups, flows) ==
    Concat([g \in 1..Len(axes_groups) |->
              IF axes_groups[g] # <<>> /\ flows[axes_groups[g][1] + 1]
              THEN SelectSeq(axes_groups[g], LAMBDA ax : ~flows[ax + 1])
              ELSE <<>>])

fuse_flip(w2, axes_groups, flows, axes_flip) ==
    fuse_flipped(IF axes_flip # <<>>
                 THEN phase_flip(w2, "ta", axes_flip, TRUE, "ta")
                 ELSE w2,
                 axes_groups, flows, axes_flip)

fuse_transposed(w2, axes_groups, flows) ==
    fuse_flip(w2, axes_groups, flows, axes_to_flip(axes_groups, flows))

fuse_copied(w1, groups0, perm) ==
    fuse_transposed(
        transpose(w1, "ta", perm, TRUE, TRUE, "ta"),
        [g \in 1..Len(groups0) |->
           [i \in 1..Len(groups0[g]) |-> IndexOf(perm, groups0[g][i])]],
        [i \in 1..Len(perm) |-> w1.obj["ta"].indices[perm[i] + 1].flow])

fuse(w, self, groups0) ==
    fuse_copied(copy(w, self, "ta"), groups0, fuse_perm(groups0, ndim(w, self)))

to_dense_resolved(w, self, w1) ==
    [world |-> w1,
     before |-> phases(w, self),
     handed |-> <<phases(w1, "ta")>>,
     log |-> Append(w1.log, <<"SymmetricArray.to_dense", "ta">>),
     result |-> symmetric_to_dense(w1, "ta")]

to_dense(w, self) == to_dense_resolved(w, self, phase_resolve(w, self, FALSE, "ta"))

\* the axes argument: an integer, or a pair of axis lists
IntAxes(k) == [int |-> TRUE, n |-> k, a |-> <<>>, b |-> <<>>]

ListAxes(la, lb) == [int |-> FALSE, n |-> 0, a |-> la, b |-> lb]

\* tensordot_fermionic, from the transposed copies ta and tb on
tensordot_contract(w3, w4, w6, flipped, axs_flip, ncon) ==
    [error |-> "",
     world |-> w6,
     sizes |-> <<size(w3, "ta"), size(w3, "tb")>>,
     ncon |-> ncon,
     flows |-> <<[i \in 1..ndim(w3, "ta") |-> w3.obj["ta"].indices[i].flow],
                 [i \in 1..ndim(w3, "tb") |-> w3.obj["tb"].indices[i].flow]>>,
     flipped |-> flipped,
     axs_flip |-> axs_flip,
     unflipped |-> <<phases(w3, "ta"), phases(w3, "tb")>>,
     stored |-> <<sectors(w3, "ta"), sectors(w3, "tb")>>,
     before |-> <<phases(w4, "ta"), phases(w4, "tb")>>,
     handed |-> <<phases(w6, "ta"), phases(w6, "tb")>>,
     log |-> Append(w6.log, <<"tensordot_symmetric", "ta", "tb">>),
     result |-> tensordot_symmetric(
                    w6, "ta", "tb",
                    [i \in 1..ncon |-> ndim(w3, "ta") - ncon + i - 1], Range(ncon))]

\* the resolve that forgets the first operand
tensordot_resolve_second_only(w3, w4, flipped, axs_flip, ncon) ==
    tensordot_contract(
        w3, w4, phase_resolve(w4, "tb", TRUE, "tb"), flipped, axs_flip, ncon)

tensordot_resolve(w3, w4, flipped, axs_flip, ncon) ==
    tensordot_contract(
        w3, w4,
        phase_resolve(phase_resolve(w4, "ta", TRUE, "ta"), "tb", TRUE, "tb"),
        flipped, axs_flip, ncon)

tensordot_flipped(w3, flipped, axs_flip, ncon) ==
    tensordot_resolve(
        w3, phase_flip(w3, flipped, axs_flip, TRUE, flipped), flipped, axs_flip, ncon)

\* the flip that takes the flow-true axes of whichever operand it flips
tensordot_flip_dual_axes(w3, ncon) ==
    LET new_axes_a == [i \in 1..ncon |-> ndim(w3, "ta") - ncon + i - 1]
        new_axes_b == Range(ncon)
    IN  IF size(w3, "ta") <= size(w3, "tb")
        THEN tensordot_flipped(
                 w3, "ta",
                 SelectSeq(new_axes_a, LAMBDA ax : w3.obj["ta"].indices[ax + 1].flow),
                 ncon)
        ELSE tensordot_flipped(
                 w3, "tb",
                 SelectSeq(new_axes_b, LAMBDA ax : w3.obj["tb"].indices[ax + 1].flow),
                 ncon)

\* the branch taken when a.size <= b.size
tensordot_flip_first(w3, ncon) ==
    tensordot_flipped(
        w3, "ta",
        SelectSeq([i \in 1..ncon |-> ndim(w3, "ta") - ncon + i - 1],
                  LAMBDA ax : w3.obj["ta"].indices[ax + 1].flow),
        ncon)

\* the other branch, were it to take the flow-true axes of b
tensordot_flip_second_dual_axes(w3, ncon) ==
    tensordot_flipped(
        w3, "tb",
        SelectSeq(Range(ncon), LAMBDA ax : w3.obj["tb"].indices[ax + 1].flow),
        ncon)

\* the branch taken when a.size > b.size
tensordot_flip_second(w3, ncon) ==
    tensordot_flipped(
        w3, "tb",
        SelectSeq(Range(ncon), LAMBDA ax : ~w3.obj["tb"].indices[ax + 1].flow),
        ncon)

tensordot_flip(w3, ncon) ==
    IF size(w3, "ta") <= size(w3, "tb")
    THEN tensordot_flip_first(w3, ncon)
    ELSE tensordot_flip_second(w3, ncon)

\* b.phase_virtual_transpose on the transposed copy
tensordot_virtual(w2, ncon) ==
    phase_virtual_transpose(
        w2, "tb",
        Reversed(Range(ncon)) \o [i \in 1..(ndim(w2, "tb") - ncon) |-> ncon + i - 1],
        TRUE, "tb")

tensordot_transposed(w2, ncon) ==
    tensordot_flip(tensordot_virtual(w2, ncon), ncon)

\* a.transpose(perm_a) and b.transpose(perm_b)
tensordot_transposes(w, a, b, axes_a, axes_b) ==
    transpose(
        transpose(w, a, without(Range(ndim(w, a)), axes_a) \o axes_a, TRUE, FALSE, "ta"),
        b, axes_b \o without(Range(ndim(w, b)), axes_b), TRUE, FALSE, "tb")

tensordot_parsed(w, a, b, axes_a, axes_b) ==
    tensordot_transposed(tensordot_transposes(w, a, b, axes_a, axes_b), Len(axes_a))

tensordot_fermionic(w, a, b, axes) ==
    LET ndim_a == ndim(w, a)
        ndim_b == ndim(w, b)
        axes_a == IF axes.int
                  THEN [i \in 1..axes.n |-> ndim_a - axes.n + i - 1]
                  ELSE [i \in 1..Len(axes.a) |-> axes.a[i] % ndim_a]
        axes_b == IF axes.int
                  THEN Range(axes.n)
                  ELSE [i \in 1..Len(axes.b) |-> axes.b[i] % ndim_b]
    IN  IF ~axes.int /\ Len(axes_a) # Len(axes_b)
        THEN [error |-> "ValueError", world |-> w]
        ELSE tensordot_parsed(w, a, b, axes_a, axes_b)

(* ----------------------- the state and its steps ----------------------- *)

Now == [obj |-> obj, ph |-> phHeap, bl |-> blHeap, log |-> <<>>]

NoOut == [op |-> "none"]

\* What is left when a call returns: the temporaries are gone, dictionaries
\* nothing refers to are collected, and references are numbered by owner.
Tidy(w) ==
    LET x  == w.obj["x"]
        y  == w.obj["y"]
        yp == IF y.live /\ y.ph = x.ph THEN 1 ELSE 2
        yb == IF y.live /\ y.bl = x.bl THEN 1 ELSE 2
    IN  [obj |-> [s \in Slots |->
                    IF s = "x" THEN [x EXCEPT !.ph = 1, !.bl = 1]
                    ELSE IF s = "y" /\ y.live THEN [y EXCEPT !.ph = yp, !.bl = yb]
                    ELSE NoArray],
         ph  |-> [r \in Refs |->
                    IF r = 1 THEN w.ph[x.ph]
                    ELSE IF r = 2 /\ y.live /\ yp = 2 THEN w.ph[y.ph]
                    ELSE EmptyDict],
         bl  |-> [r \in Refs |->
                    IF r = 1 THEN w.bl[x.bl]
                    ELSE IF r = 2 /\ y.live /\ yb = 2 THEN w.bl[y.bl]
                    ELSE EmptyDict],
         log |-> w.log]

Return(w, o) ==
    LET t == Tidy(w)
    IN  /\ obj' = t.obj
        /\ phHeap' = t.ph
        /\ blHeap' = t.bl
        /\ out' = o

\* FermionicArray(indices, charge_total, blocks)
Construct(flows, charge_total, data) ==
    [live |-> TRUE,
     indices |-> [i \in 1..Len(flows) |-> BlockIndex(flows[i])],
     charge_total |-> charge_total,
     blocks |-> data,
     phases |-> EmptyDict]

\* copy_with(phases=...): an array with signs buffered on the sectors minus
Given(flows, charge_total, data, minus) ==
    [Construct(flows, charge_total, data) EXCEPT !.phases = [s \in minus |-> -1]]

\* the state that holds array vx as x and, when it is live, vy as y
Holding(vx, vy) ==
    /\ obj = [s \in Slots |->
                IF s = "x"
                THEN [live |-> TRUE, indices |-> vx.indices,
                      charge_total |-> vx.charge_total, bl |-> 1, ph |-> 1]
                ELSE IF s = "y" /\ vy.live
                THEN [live |-> TRUE, indices |-> vy.indices,
                      charge_total |-> vy.charge_total, bl |-> 2, ph |-> 2]
                ELSE NoArray]
    /\ phHeap = [r \in Refs |-> IF r = 1 THEN vx.phases
                                ELSE IF r = 2 /\ vy.live THEN vy.phases ELSE EmptyDict]
    /\ blHeap = [r \in Refs |-> IF r = 1 THEN vx.blocks
                                ELSE IF r = 2 /\ vy.live THEN vy.blocks ELSE EmptyDict]
    /\ out = NoOut

Init ==
    \E n \in 1..MaxSeqRank :
      \E flows \in [1..n -> BOOLEAN], charge_total \in Charges :
        \E stored \in SUBSET ValidSectors(n, charge_total) :
          Holding(Construct(flows, charge_total, RealBlocks(stored)), NoArray)

LiveRoots == {r \in Roots : obj[r].live}

\* a pure call on x binds its result to y; an in-place call acts on x or y
Receivers(inplace) == IF inplace THEN LiveRoots ELSE {"x"}

AxisLists(n) == {SelectSeq(Range(n), LAMBDA ax : ax \in S) : S \in SUBSET (0..(n - 1))}

\* one call of each method; o is what the caller notes down about the call
Transpose(r, inplace, o) ==
    \E phase \in BOOLEAN, axes \in Perms(ndim(Now, r)) \cup {None} :
      Return(transpose(Now, r, axes, phase, inplace, "y"), o)

PhaseFlip(r, inplace, o) ==
    \E axs \in AxisLists(ndim(Now, r)) :
      Return(phase_flip(Now, r, axs, inplace, "y"), o)

PhaseResolve(r, inplace, o) ==
    Return(phase_resolve(Now, r, inplace, "y"), o)

PhaseVirtualTranspose(r, inplace, o) ==
    \E axes \in Perms(ndim(Now, r)) \cup {None} :
      Return(phase_virtual_transpose(Now, r, axes, inplace, "y"), o)

Conj(r, inplace, o) ==
    \E phase \in BOOLEAN :
      Return(conj(Now, r, phase, inplace, "y"), o)

Dagger(r, inplace, o) ==
    \E phase \in BOOLEAN :
      Return(dagger(Now, r, phase, inplace, "y"), o)

Next ==
    \E inplace \in BOOLEAN : \E r \in Receivers(inplace) :
      \/ Transpose(r, inplace, NoOut)
      \/ PhaseFlip(r, inplace, NoOut)
      \/ PhaseResolve(r, inplace, NoOut)
      \/ PhaseVirtualTranspose(r, inplace, NoOut)
      \/ Conj(r, inplace, NoOut)
      \/ Dagger(r, inplace, NoOut)

Spec == Init /\ [][Next]_vars

\* the non-empty groups of distinct axes of a rank-n array, one or two at a time
Groups(n) ==
    UNION {{g \in [1..k -> 0..(n - 1)] : \A i, j \in 1..k : g[i] = g[j] => i = j} :
             k \in 1..n}

FuseArgs(n) ==
    {<<g>> : g \in Groups(n)}
      \cup {<<gh[1], gh[2]>> : gh \in {q \in Groups(n) \X Groups(n) :
                                        Elems(q[1]) \cap Elems(q[2]) = {}}}

\* the axes arguments: every integer that fits; the lists of in-range axes
\* of any two lengths; and the lists that may hold negative indices and
\* indices outside -ndim .. ndim-1, each against the leading axes of the
\* other operand.  Lists that name an axis twice are left out.
Lists(V, n) ==
    UNION {{l \in [1..k -> V] : \A i, j \in 1..k : l[i] % n = l[j] % n => i = j} :
             k \in 0..n}

InRange(n) == 0..(n - 1)

AnyIndex(n) == {-n - 1, -1, n} \cup InRange(n)

IntArgs(na, nb) == {IntAxes(k) : k \in 0..(IF na <= nb THEN na ELSE nb)}

ListArgs(na, nb) ==
    {ListAxes(ab[1], ab[2]) : ab \in Lists(InRange(na), na) \X Lists(InRange(nb), nb)}
      \cup {ListAxes(la, Range(Len(la))) :
              la \in {l \in Lists(AnyIndex(na), na) : Len(l) <= nb}}
      \cup {ListAxes(Range(Len(lb)), lb) :
              lb \in {l \in Lists(AnyIndex(nb), nb) : Len(l) <= na}}

(* ------------------- single calls on a given array ---------------------- *)

inverse(p) == [i \in 1..Len(p) |-> (CHOOSE j \in 1..Len(p) : p[j] = i - 1) - 1]

InitGiven ==
    \E n \in 1..MaxRank :
      \E flows \in [1..n -> BOOLEAN], charge_total \in Charges :
        \E stored \in SUBSET ValidSectors(n, charge_total) :
          \E minus \in SUBSET stored :
            Holding(Given(flows, charge_total, ComplexBlocks(stored), minus), NoArray)

\* x.transpose(p).transpose(inverse(p))
RoundTrip ==
    /\ out.op = "none"
    /\ \E p \in Perms(ndim(Now, "x")) :
         LET w1 == transpose(Now, "x", p, TRUE, FALSE, "ta")
             w2 == transpose(w1, "ta", inverse(p), TRUE, FALSE, "tb")
         IN  Return(w2, [op |-> "roundtrip", axes |-> p,
                         mid |-> Value(w1, "ta"), result |-> Value(w2, "tb")])

\* x.phase_virtual_transpose(axes) beside x.transpose(axes)
VirtualTranspose ==
    /\ out.op = "none"
    /\ \E axes \in Perms(ndim(Now, "x")) :
         LET w1 == phase_virtual_transpose(Now, "x", axes, FALSE, "ta")
             w2 == transpose(w1, "x", axes, TRUE, FALSE, "tb")
         IN  Return(w2, [op |-> "virtual", axes |-> axes,
                         virt |-> Value(w1, "ta"), real |-> Value(w2, "tb")])

\* tensordot(x.conj(), x, ndim) beside tensordot(x, x.conj(), ndim)
InnerProducts ==
    /\ out.op = "none"
    /\ phases(Now, "x") = EmptyDict
    /\ LET n  == ndim(Now, "x")
           w1 == conj(Now, "x", TRUE, FALSE, "tc")
           l  == tensordot_fermionic(w1, "tc", "x", IntAxes(n))
           r  == tensordot_fermionic(l.world, "x", "tc", IntAxes(n))
       IN  Return(r.world, [op |-> "inner", conj |-> Value(w1, "tc"),
                            left |-> l.result, right |-> r.result])

Fuse(r) ==
    /\ out.op = "none"
    /\ \E groups \in FuseArgs(ndim(Now, r)) :
         LET f == fuse(Now, r, groups)
         IN  Return(f.world, [op |-> "fuse", self |-> r, args |-> groups,
                              res |-> [f EXCEPT !.world = <<>>]])

ToDense(r) ==
    /\ out.op = "none"
    /\ LET d == to_dense(Now, r)
       IN  Return(d.world, [op |-> "to_dense", self |-> r,
                            res |-> [d EXCEPT !.world = <<>>]])

NextSingle ==
    \/ RoundTrip
    \/ VirtualTranspose
    \/ InnerProducts
    \/ Fuse("x")
    \/ ToDense("x")

SpecSingle == InitGiven /\ [][NextSingle]_vars

(* --------------------- single calls on two arrays ---------------------- *)

\* a is any array; b is any array that stores every sector it may
InitPair ==
    \E na \in 1..MaxPairRank, nb \in 1..MaxPairRank :
      \E fa \in [1..na -> BOOLEAN], ca \in Charges,
         fb \in [1..nb -> BOOLEAN], cb \in Charges :
        \E sa \in SUBSET ValidSectors(na, ca) :
          \E ma \in SUBSET sa, mb \in SUBSET ValidSectors(nb, cb) :
            Holding(Given(fa, ca, ComplexBlocks(sa), ma),
                    Given(fb, cb, ComplexBlocks(ValidSectors(nb, cb)), mb))

Tensordot(a, b) ==
    /\ out.op = "none"
    /\ \E axes \in IntArgs(ndim(Now, a), ndim(Now, b))
                     \cup ListArgs(ndim(Now, a), ndim(Now, b)) :
         LET t == tensordot_fermionic(Now, a, b, axes)
         IN  Return(t.world, [op |-> "tensordot", a |-> a, b |-> b, args |-> axes,
                              res |-> [t EXCEPT !.world = <<>>]])

NextContract ==
    \/ Tensordot("x", "y")
    \/ Fuse("x")
    \/ ToDense("x")

SpecContract == InitPair /\ [][NextContract]_vars

(* ------------ one contraction, by either branch of the flip ------------- *)

\* the contraction of a and b over in-range axis lists of equal length, once
\* with a flipped and once with b flipped, whatever their sizes
Branches(a, b) ==
    /\ out.op = "none"
    /\ \E axes_a \in Lists(InRange(ndim(Now, a)), ndim(Now, a)),
          axes_b \in Lists(InRange(ndim(Now, b)), ndim(Now, b)) :
         /\ Len(axes_a) = Len(axes_b)
         /\ LET w3 == tensordot_virtual(
                         tensordot_transposes(Now, a, b, axes_a, axes_b), Len(axes_a))
                first  == tensordot_flip_first(w3, Len(axes_a))
                second == tensordot_flip_second(w3, Len(axes_a))
            IN  Return(first.world,
                       [op |-> "branches", a |-> a, b |-> b,
                        args |-> ListAxes(axes_a, axes_b),
                        first |-> [first EXCEPT !.world = <<>>],
                        second |-> [second EXCEPT !.world = <<>>]])

NextBranch == Branches("x", "y")

SpecBranch == InitPair /\ [][NextBranch]_vars

(* ------------- a pure call, and what is done with its result ------------ *)

InitPure ==
    \E n \in 1..MaxPureRank :
      \E flows \in [1..n -> BOOLEAN], charge_total \in Charges :
        \E stored \in SUBSET ValidSectors(n, charge_total) :
          \E minus \in SUBSET stored :
            Holding(Given(flows, charge_total, ComplexBlocks(stored), minus), NoArray)

\* y = x.method(..., inplace=False)
Called == [op |-> "pure", orig |-> Value(Now, "x")]

PureCall ==
    /\ out.op = "none"
    /\ \/ Transpose("x", FALSE, Called)
       \/ PhaseFlip("x", FALSE, Called)
       \/ PhaseResolve("x", FALSE, Called)
       \/ PhaseVirtualTranspose("x", FALSE, Called)
       \/ Conj("x", FALSE, Called)
       \/ Dagger("x", FALSE, Called)

\* y.method(..., inplace=True) on the result of the pure call
Later == [op |-> "later", orig |-> out.orig]

InPlaceOnResult ==
    /\ out.op # "none"
    /\ \/ Transpose("y", TRUE, Later)
       \/ PhaseFlip("y", TRUE, Later)
       \/ PhaseResolve("y", TRUE, Later)
       \/ PhaseVirtualTranspose("y", TRUE, Later)
       \/ Conj("y", TRUE, Later)
       \/ Dagger("y", TRUE, Later)

\* x or y handed to fuse, to_dense or a contraction, whose result is dropped
Used == [op |-> "used", orig |-> out.orig, other |-> Value(Now, "y")]

FuseCall(r) ==
    /\ out.op # "none"
    /\ \E groups \in FuseArgs(ndim(Now, r)) :
         Return(fuse(Now, r, groups).world, Used)

ToDenseCall(r) ==
    /\ out.op # "none"
    /\ Return(to_dense(Now, r).world, Used)

TensordotCall(a, b) ==
    /\ out.op # "none"
    /\ \E axes \in IntArgs(ndim(Now, a), ndim(Now, b)) :
         Return(tensordot_fermionic(Now, a, b, axes).world, Used)

NextPure ==
    \/ PureCall
    \/ InPlaceOnResult
    \/ \E r \in Roots :
         \/ FuseCall(r)
         \/ ToDenseCall(r)
    \/ \E a \in Roots, b \in Roots : TensordotCall(a, b)

SpecPure == InitPure /\ [][NextPure]_vars

(* ------------------------------- claims -------------------------------- *)

(* C1: every key of the phase map of an array is a sector its block map    *)
(* stores, after any sequence of transpose, phase_flip,                    *)
(* phase_virtual_transpose, conj, dagger and phase_resolve calls.          *)
PhaseKeysStored ==
    \A r \in Roots : obj[r].live => (DOMAIN phases(Now, r)) \subseteq sectors(Now, r)

\* an array with a buffered sign on some stored sectors and none on others
PhaseKeysStoredWitness ==
    \E r \in Roots :
      /\ obj[r].live
      /\ DOMAIN phases(Now, r) # {}
      /\ DOMAIN phases(Now, r) # sectors(Now, r)

(* C2: phase_resolve negates exactly the blocks whose sector carries a     *)
(* buffered -1, leaves the other blocks alone and empties the phase map;   *)
(* resolving the result once more changes no block and no phase.           *)
ResolveNegatesOnce ==
    [][\A inplace \in BOOLEAN : \A r \in Receivers(inplace) :
         Return(phase_resolve(Now, r, inplace, "y"), NoOut) =>
           LET new   == NewOf(r, inplace, "y")
               B     == blocks(Now, r)
               P     == phases(Now, r)
               after == Value(Now, new)'
               again == Value(phase_resolve(Now, new, TRUE, new), new)'
           IN  /\ after.phases = EmptyDict
               /\ DOMAIN after.blocks = DOMAIN B
               /\ \A s \in DOMAIN B :
                    after.blocks[s] = IF Get(P, s, 1) = -1 THEN block_neg(B[s]) ELSE B[s]
               /\ again = after]_vars

\* a resolved array: no sign is buffered and a block has been negated
ResolveNegatesOnceWitness ==
    \E r \in Roots :
      /\ obj[r].live
      /\ phases(Now, r) = EmptyDict
      /\ \E s \in sectors(Now, r) : blocks(Now, r)[s].re < 0
      /\ \E s \in sectors(Now, r) : blocks(Now, r)[s].re > 0

(* C3: transposing by p and then by the inverse of p, both with phase,     *)
(* gives back the axis order, the sectors, the blocks and the phase map.   *)
TransposeRoundTrip ==
    out.op = "roundtrip" => out.result = Value(Now, "x")

\* a round trip through a permutation that is not its own inverse, whose
\* first half buffers a sign on an array that had none
TransposeRoundTripWitness ==
    /\ out.op = "roundtrip"
    /\ inverse(out.axes) # out.axes
    /\ phases(Now, "x") = EmptyDict
    /\ out.mid.phases # EmptyDict

(* C4: phase_virtual_transpose(axes) keeps the index order, the sector     *)
(* keys and the blocks, and gives sector s the sign transpose(axes) gives  *)
(* permuted(s, axes), storing it only when it is -1.                       *)
VirtualMatchesTranspose ==
    out.op = "virtual" =>
      /\ out.virt.indices = obj["x"].indices
      /\ out.virt.blocks = blocks(Now, "x")
      /\ DOMAIN out.virt.phases \subseteq sectors(Now, "x")
      /\ \A s \in DOMAIN out.virt.phases : out.virt.phases[s] = -1
      /\ \A s \in sectors(Now, "x") :
           Get(out.virt.phases, s, 1) = Get(out.real.phases, permuted(s, out.axes), 1)

\* a virtual transpose that turns a buffered -1 into +1 and a +1 into -1
VirtualMatchesTransposeWitness ==
    /\ out.op = "virtual"
    /\ out.axes # Range(Len(out.axes))
    /\ \E s \in DOMAIN phases(Now, "x") : s \notin DOMAIN out.virt.phases
    /\ \E s \in DOMAIN out.virt.phases : s \notin DOMAIN phases(Now, "x")

(* C5: with no sign buffered on x, contracting every axis of x.conj()      *)
(* with x gives what contracting every axis of x with x.conj() gives,      *)
(* whatever the charge_total of x.                                         *)
InnerProductsAgree ==
    out.op = "inner" => out.left = out.right

\* the axes of the flipped operand that the contraction sums over
ContractedAxes(res, f) ==
    IF f = 1
    THEN [i \in 1..res.ncon |-> Len(res.flows[1]) - res.ncon + i - 1]
    ELSE Range(res.ncon)

\* flipping the axes axs of operand f took the signs res.unflipped to the
\* signs res.before: a sector changed sign iff its parities on axs sum to
\* odd, and the other operand was not flipped
FlippedOn(res, f, axs) ==
    /\ res.flipped = (IF f = 1 THEN "ta" ELSE "tb")
    /\ res.axs_flip = axs
    /\ \A s \in res.stored[f] \cup DOMAIN res.unflipped[f] \cup DOMAIN res.before[f] :
         Get(res.before[f], s, 1) =
           Get(res.unflipped[f], s, 1)
           * (IF s \in res.stored[f]
                 /\ SumSeq([i \in 1..Len(axs) |-> parity(s[axs[i] + 1])]) % 2 = 1
              THEN -1 ELSE 1)
    /\ res.before[3 - f] = res.unflipped[3 - f]
    /\ \A i \in 1..Len(res.log) :
         res.log[i][1] = "phase_flip" => res.log[i][2] = res.flipped

(* C6, as stated: the operand with the smaller element count is the one    *)
(* flipped, on those of its own contracted axes that have flow true; a     *)
(* sector changes sign iff its parities on them sum to odd, and the other  *)
(* operand is not flipped.                                                 *)
SmallerFlippedOnItsDualAxes ==
    (out.op = "tensordot" /\ out.res.error = "") =>
      LET res == out.res
          f   == IF res.flipped = "ta" THEN 1 ELSE 2
      IN  /\ res.sizes[f] <= res.sizes[3 - f]
          /\ FlippedOn(res, f,
                       SelectSeq(ContractedAxes(res, f),
                                 LAMBDA ax : res.flows[f][ax + 1]))

(* C6, as the code has it: the first operand is flipped when its element   *)
(* count is at most the second's, on its contracted axes with flow true;   *)
(* otherwise the second operand is flipped, on its contracted axes with    *)
(* flow false.  A sector changes sign iff its parities on the flipped axes *)
(* sum to odd, and the other operand is not flipped.                       *)
FlippedOperandAndAxes ==
    (out.op = "tensordot" /\ out.res.error = "") =>
      LET res == out.res
          f   == IF res.sizes[1] <= res.sizes[2] THEN 1 ELSE 2
      IN  FlippedOn(res, f,
                    SelectSeq(ContractedAxes(res, f),
                              LAMBDA ax : res.flows[f][ax + 1] = (f = 1)))

\* a contraction whose second operand is the smaller one and has a sector
\* whose sign the flip changed
FlippedOperandAndAxesWitness ==
    /\ out.op = "tensordot"
    /\ out.res.error = ""
    /\ out.res.flipped = "tb"
    /\ out.res.axs_flip # <<>>
    /\ out.res.before[2] # out.res.unflipped[2]

(* C7: fuse passes to phase_flip exactly the axes of each non-empty group  *)
(* whose flow differs from the flow of the group's leading axis, whether   *)
(* that leading axis is dual or not.                                       *)
FuseFlipsAxesDifferingFromLeading ==
    out.op = "fuse" =>
      LET res == out.res
      IN  Elems(res.axes_flip) =
            {ax \in 0..(Len(res.flows) - 1) :
               \E g \in 1..Len(res.groups) :
                 /\ ax \in Elems(res.groups[g])
                 /\ res.flows[ax + 1] # res.flows[res.groups[g][1] + 1]}

\* every phase_flip and phase_virtual_transpose of the log comes before
\* every phase_resolve, and each array named by the last entry, the
\* hand-over, was resolved before it
ResolvedLast(log) ==
    /\ \A i, j \in 1..Len(log) :
         (log[i][1] \in {"phase_flip", "phase_virtual_transpose"}
            /\ log[j][1] = "phase_resolve") => i < j
    /\ \A k \in 2..Len(log[Len(log)]) :
         \E i \in 1..(Len(log) - 1) :
           log[i][1] = "phase_resolve" /\ log[i][2] = log[Len(log)][k]

(* C8: the arrays handed to tensordot_symmetric, to SymmetricArray.fuse    *)
(* and to SymmetricArray.to_dense have an empty phase map, and every       *)
(* phase_flip and phase_virtual_transpose of the operation comes before    *)
(* the phase_resolve.                                                      *)
HandedOverResolved ==
    ((out.op = "tensordot" /\ out.res.error = "") \/ out.op \in {"fuse", "to_dense"}) =>
      /\ \A i \in 1..Len(out.res.handed) : out.res.handed[i] = EmptyDict
      /\ ResolvedLast(out.res.log)

\* a contraction both of whose operands carried signs into the resolve, one
\* of them changed by the flip
HandedOverResolvedWitness ==
    /\ out.op = "tensordot"
    /\ out.res.error = ""
    /\ out.res.before[1] # EmptyDict
    /\ out.res.before[2] # EmptyDict
    /\ out.res.before # out.res.unflipped

(* C9: a pure call leaves the indices, the blocks and the phase map of its *)
(* receiver as they were and returns an array that shares neither mapping  *)
(* with it, so that no later in-place call on the result changes the       *)
(* receiver; fuse, to_dense and a contraction leave their operands as they *)
(* were.                                                                   *)
PureLeavesOriginal ==
    out.op # "none" =>
      /\ Value(Now, "x") = out.orig
      /\ obj["y"].live
      /\ obj["y"].ph # obj["x"].ph
      /\ obj["y"].bl # obj["x"].bl
      /\ out.op = "used" => Value(Now, "y") = out.other

\* the result of a pure call, changed in place until both its blocks and
\* its signs differ from the receiver's, and then handed to a contraction
PureLeavesOriginalWitness ==
    /\ out.op = "used"
    /\ phases(Now, "x") # EmptyDict
    /\ phases(Now, "y") # phases(Now, "x")
    /\ blocks(Now, "y") # blocks(Now, "x")
    /\ obj["y"].indices # obj["x"].indices

(* C10: a contraction whose two axis lists have unequal length, or one of  *)
(* whose lists holds an index outside -ndim .. ndim-1, fails with an       *)
(* argument error.                                                         *)
BadAxesRaise ==
    (out.op = "tensordot" /\ ~out.args.int) =>
      LET na == ndim(Now, out.a)
          nb == ndim(Now, out.b)
          bad == \/ Len(out.args.a) # Len(out.args.b)
                 \/ \E i \in 1..Len(out.args.a) : out.args.a[i] \notin (-na)..(na - 1)
                 \/ \E i \in 1..Len(out.args.b) : out.args.b[i] \notin (-nb)..(nb - 1)
      IN  bad => out.res.error = "ValueError"

\* every contracted axis of the first operand meets an axis of the second
\* with the opposite flow
FlowCompatible(res) ==
    \A i \in 1..res.ncon :
      res.flows[1][Len(res.flows[1]) - res.ncon + i] # res.flows[2][i]

\* the sectors of the two operands that agree on the contracted axes
MatchedSectors(res) ==
    {p \in res.stored[1] \X res.stored[2] :
       \A i \in 1..res.ncon : p[1][Len(res.flows[1]) - res.ncon + i] = p[2][i]}

\* the sign the resolve multiplies into the product of a matched pair
ProductSign(res, p) == Get(res.before[1], p[1], 1) * Get(res.before[2], p[2], 1)

(* C11: when every contracted axis pair has opposite flows, flipping the   *)
(* first operand on its contracted axes with flow true and flipping the    *)
(* second on its contracted axes with flow false give every pair of        *)
(* matched sectors the same product sign, and the same output blocks.      *)
BranchesAgree ==
    (out.op = "branches" /\ FlowCompatible(out.first)) =>
      /\ out.first.flipped = "ta"
      /\ out.second.flipped = "tb"
      /\ \A p \in MatchedSectors(out.first) :
           ProductSign(out.first, p) = ProductSign(out.second, p)
      /\ out.first.result = out.second.result

\* a flow-compatible contraction in which each branch changes a sign of the
\* operand it flips, and which has a block to give
BranchesAgreeWitness ==
    /\ out.op = "branches"
    /\ FlowCompatible(out.first)
    /\ out.first.ncon >= 1
    /\ out.first.before[1] # out.first.unflipped[1]
    /\ out.second.before[2] # out.second.unflipped[2]
    /\ \E p \in MatchedSectors(out.first) : ProductSign(out.first, p) = -1
    /\ out.first.result.blocks # EmptyDict

====
